---- MODULE Spec2Model ----
(***************************************************************************)
(* Gerador de Arte ASCII a partir de Imagens (src/main.py).                *)
(*                                                                         *)
(* The module models the command-line entry point and gerar_arte_ascii as  *)
(* a state machine (Spec), one action per statement of the orchestrator,   *)
(* and the pure function mapear_pixels_para_ascii applied to every pair of *)
(* luminance values (SpecMap).  The two float expressions of the program,  *)
(* int((pixel_valor / 255) * (len - 1)) and                                *)
(* int((nova_largura * proporcao) * 0.55), are evaluated in IEEE-754       *)
(* binary64 arithmetic, round-to-nearest-even, as CPython evaluates them.  *)
(***************************************************************************)
EXTENDS Integers, Sequences, FiniteSets

VARIABLES
    ASCII_CHARS_PADRAO,     \* the module global of line 19
    argv,                   \* what the command line names: the file and its content
    largura,                \* args.largura
    invertido,              \* args.invertido
    pc,                     \* position in main / gerar_arte_ascii
    imagem,                 \* result of Image.open
    imagem_redimensionada,  \* result of redimensionar_imagem
    imagem_cinza,           \* result of converter_para_escala_de_cinza
    caracteres_ascii,       \* the palette selected at line 39
    string_ascii,           \* result of mapear_pixels_para_ascii
    arte_ascii_final,       \* the text built by the loop of lines 73-74
    stdout,                 \* what print has written, in order
    erro,                   \* the exception that left gerar_arte_ascii, if any
    historico,              \* the calls made so far, in order
    par,                    \* SpecMap: the grayscale pixel sequence given
    indices,                \* SpecMap: the indices computed at line 45
    saida_padrao,           \* SpecMap: output with invertido = False
    saida_invertida         \* SpecMap: output with invertido = True

vars == <<ASCII_CHARS_PADRAO, argv, largura, invertido, pc, imagem,
          imagem_redimensionada, imagem_cinza, caracteres_ascii, string_ascii,
          arte_ascii_final, stdout, erro, historico,
          par, indices, saida_padrao, saida_invertida>>

map_vars == <<par, indices, saida_padrao, saida_invertida>>

---------------------------------------------------------------------------
(* Bounds of the model.                                                    *)

\* Original images are 1..MaxDim pixels wide and high.
MaxDim == 3
\* --largura ranges over -MaxLarguraNegativa .. MaxLargura.
MaxLargura == 5
MaxLarguraNegativa == 1
\* Sample grayscale buffers step through Niveis with a stride of 0..MaxPasso.
MaxPasso == 2

\* Luminance values the sample buffers are made of.
Niveis == <<0, 3, 4, 85, 127, 128, 254, 255>>

---------------------------------------------------------------------------
(* binary64 arithmetic.  A float is [s, m, e]: sign s, significand m as a  *)
(* sequence of bits, least significant first, of at most MANT_DIG bits     *)
(* with its last bit 1 (<<>> is zero), and exponent e: s * m * 2^e.        *)

\* sys.float_info.mant_dig of the floats of lines 24, 27 and 45.
MANT_DIG == 53

RECURSIVE BitsOf(_)
BitsOf(n) == IF n = 0 THEN <<>> ELSE <<n % 2>> \o BitsOf(n \div 2)

RECURSIVE NatOf(_)
NatOf(bits) == IF bits = <<>> THEN 0 ELSE Head(bits) + 2 * NatOf(Tail(bits))

RECURSIVE Trim(_)
Trim(bits) ==
    IF bits = <<>> \/ bits[Len(bits)] = 1 THEN bits
    ELSE Trim(SubSeq(bits, 1, Len(bits) - 1))

Coef(c, i) == IF i <= Len(c) THEN c[i] ELSE 0

\* The bits of SUM c[i] * 2^(i-1) + carry, eight positions at a time.
RECURSIVE Carry(_, _, _)
Carry(c, i, carry) ==
    IF i > Len(c) THEN BitsOf(carry)
    ELSE LET t == carry + Coef(c, i) + 2 * Coef(c, i + 1) + 4 * Coef(c, i + 2)
                  + 8 * Coef(c, i + 3) + 16 * Coef(c, i + 4) + 32 * Coef(c, i + 5)
                  + 64 * Coef(c, i + 6) + 128 * Coef(c, i + 7)
         IN  [j \in 1..8 |-> (t \div (2 ^ (j - 1))) % 2] \o Carry(c, i + 8, t \div 256)

\* Round bits * 2^e to MANT_DIG significant bits, ties to even.
Round(bits, e) ==
    LET L == Len(bits)
        d == L - MANT_DIG
    IN  IF d <= 0 THEN [m |-> bits, e |-> e]
        ELSE LET kept == SubSeq(bits, d + 1, L)
                 sticky == \E i \in 1..(d - 1) : bits[i] = 1
                 up == bits[d] = 1 /\ (sticky \/ kept[1] = 1)
             IN  [m |-> IF up THEN Trim(Carry(kept, 1, 1)) ELSE kept, e |-> e + d]

\* int -> float, exact for the integers of the model.
FromInt(n) ==
    [s |-> IF n < 0 THEN -1 ELSE 1, m |-> BitsOf(IF n < 0 THEN -n ELSE n), e |-> 0]

\* float * float: the exact product of the significands, rounded once.
FMul(a, b) ==
    LET la == Len(a.m)
        lb == Len(b.m)
        c == [k \in 1..(la + lb) |->
                Cardinality({i \in 1..la : k + 1 - i \in 1..lb
                                 /\ a.m[i] = 1 /\ b.m[k + 1 - i] = 1})]
        r == Round(Trim(Carry(c, 1, 0)), a.e + b.e)
    IN  [s |-> a.s * b.s, m |-> r.m, e |-> r.e]

\* 8*n bits of the fraction r / b, least significant first, below them one
\* bit that is 1 when the division left a remainder.
RECURSIVE FracBits(_, _, _)
FracBits(r, b, n) ==
    IF n = 0 THEN <<IF r = 0 THEN 0 ELSE 1>>
    ELSE FracBits((256 * r) % b, b, n - 1)
             \o [j \in 1..8 |-> (((256 * r) \div b) \div (2 ^ (j - 1))) % 2]

\* a / b for integers a >= 0, b > 0: the quotient by long division, rounded
\* once.  Also the value of a decimal literal a / 10^k.
FDiv(a, b) ==
    LET n == 8 + Len(BitsOf(b)) \div 8
        r == Round(Trim(FracBits(a % b, b, n) \o BitsOf(a \div b)), -(8 * n + 1))
    IN  [s |-> 1, m |-> r.m, e |-> r.e]

\* int(float): truncation toward zero.
Trunc(f) ==
    LET k == Len(f.m)
    IN  f.s * (IF f.e >= 0
               THEN NatOf([i \in 1..(k + f.e) |-> IF i <= f.e THEN 0 ELSE f.m[i - f.e]])
               ELSE IF -f.e >= k THEN 0 ELSE NatOf(SubSeq(f.m, 1 - f.e, k)))

---------------------------------------------------------------------------
(* The pure functions of src/main.py.                                      *)

\* A str is the sequence of the code points (ord) of its characters.
\* ord(QUEBRA), the line separator of line 74.
QUEBRA == 10
\* ord(" "), the last character of the literal of line 19.
ESPACO == 32
\* ord("$"), the first character of the literal of line 19.
CIFRAO == 36

\* The literal of line 19, densest character first.
Paleta ==
    <<  36,  64,  66,  37,  56,  38,  87,  77,  35,  42,
       111,  97, 104, 107,  98, 100, 112, 113, 119, 109,
        90,  79,  48,  81,  76,  67,  74,  85,  89,  88,
       122,  99, 118, 117, 110, 120, 114, 106, 102, 116,
        47,  92, 124,  40,  41,  49, 123, 125,  91,  93,
        63,  45,  95,  43, 126,  60,  62, 105,  33, 108,
        73,  59,  58,  44,  34,  94,  96,  39,  46,  32 >>

\* Variant: a slice that reverses from the wrong end, s[-2::-1] + s[-1].
Inverter_Deslocado(s) == [i \in 1..Len(s) |-> s[((Len(s) - i + 1) % Len(s)) + 1]]

\* s[::-1]
Inverter(s) == [i \in 1..Len(s) |-> s[Len(s) + 1 - i]]

\* Variant: the flag is not consulted.
SelecionarPaleta_IgnoraFlag(paleta, inv) == paleta

\* Line 39: the palette mapear_pixels_para_ascii works with.
SelecionarPaleta(paleta, inv) == IF inv THEN Inverter(paleta) ELSE paleta

\* Line 45: int((pixel_valor / 255) * (len(caracteres_ascii) - 1)), n = len.
IndiceFloat(pixel_valor, n) ==
    Trunc(FMul(FDiv(pixel_valor, 255), FromInt(n - 1)))

\* IndiceFloat for the palette of line 19, evaluated once per pixel value.
TabelaIndice == [v \in 0..255 |-> IndiceFloat(v, Len(Paleta))]

\* Variant: the pixel value wraps around the palette.
Indice_Modular(pixel_valor, n) == pixel_valor % n

\* Variant: the luminance is scaled by 256 levels instead of by 255.
Indice_Div256(pixel_valor, n) == (pixel_valor * (n - 1)) \div 256

\* Variant: the scale is len(caracteres_ascii), not len(caracteres_ascii) - 1.
Indice_SemMenosUm(pixel_valor, n) == (pixel_valor * n) \div 255

Indice(pixel_valor, n) ==
    IF n = Len(Paleta) /\ pixel_valor \in 0..255
    THEN TabelaIndice[pixel_valor]
    ELSE IndiceFloat(pixel_valor, n)

\* Lines 41-48.  The lookup of line 46 raises IndexError when the index is
\* not below len(caracteres_ascii); indices are never negative here.
mapear_pixels_para_ascii(pixels, paleta, inv) ==
    LET chars == SelecionarPaleta(paleta, inv)
        idx == [p \in 1..Len(pixels) |-> Indice(pixels[p], Len(chars))]
    IN  IF \A p \in 1..Len(pixels) : idx[p] < Len(chars)
        THEN [erro |-> "nenhum", indices |-> idx,
              texto |-> [p \in 1..Len(pixels) |-> chars[idx[p] + 1]]]
        ELSE [erro |-> "IndexError", indices |-> idx, texto |-> <<>>]

\* Lines 24 and 27: int((nova_largura * (altura / float(largura))) * 0.55).
AlturaFloat(nova_largura, largura_original, altura_original) ==
    Trunc(FMul(FMul(FromInt(nova_largura),
                    FDiv(altura_original, largura_original)),
               FDiv(55, 100)))

\* AlturaFloat over the inputs of the model, evaluated once.
TabelaAltura ==
    [t \in ((-MaxLarguraNegativa)..MaxLargura) \X (1..MaxDim) \X (1..MaxDim) |->
        AlturaFloat(t[1], t[2], t[3])]

\* num / den rounded to the nearest integer, ties to even, for num >= 0.
Arredondar(num, den) ==
    LET q == num \div den
        r == num % den
    IN  IF 2 * r < den THEN q
        ELSE IF 2 * r > den THEN q + 1
        ELSE IF q % 2 = 0 THEN q ELSE q + 1

\* Variant: the height is rounded, round(...), instead of truncated.
NovaAltura_Arredondada(nova_largura, largura_original, altura_original) ==
    Arredondar(11 * nova_largura * altura_original, 20 * largura_original)

NovaAltura(nova_largura, largura_original, altura_original) ==
    IF <<nova_largura, largura_original, altura_original>> \in DOMAIN TabelaAltura
    THEN TabelaAltura[<<nova_largura, largura_original, altura_original>>]
    ELSE AlturaFloat(nova_largura, largura_original, altura_original)

Min(a, b) == IF a < b THEN a ELSE b

\* Variant: each slice is one character short, s[i:i + w - 1].
RECURSIVE Formatar_FatiaCurta(_, _, _)
Formatar_FatiaCurta(s, w, i) ==
    IF i >= Len(s) THEN <<>>
    ELSE SubSeq(s, i + 1, Min(i + w - 1, Len(s))) \o <<QUEBRA>>
             \o Formatar_FatiaCurta(s, w, i + w)

\* Lines 72-74: for i in range(0, len(s), w): arte += s[i:i + w] + QUEBRA,
\* for a step w > 0; i counts from 0 as in the source.
RECURSIVE Formatar(_, _, _)
Formatar(s, w, i) ==
    IF i >= Len(s) THEN <<>>
    ELSE SubSeq(s, i + 1, Min(i + w, Len(s))) \o <<QUEBRA>> \o Formatar(s, w, i + w)

\* Lines 29 and 34 on the pixels: resampling and the conversion to mode "L"
\* give one luminance in 0..255 per pixel of the resized image; an image of
\* one colour stays of one colour (black 0, white 255).
AmostrasCinza(tom, n) ==
    IF tom = "preta" THEN {[p \in 1..n |-> 0]}
    ELSE IF tom = "branca" THEN {[p \in 1..n |-> 255]}
    ELSE {[p \in 1..n |-> Niveis[((a * p + b) % Len(Niveis)) + 1]] :
              a \in 0..MaxPasso, b \in 0..(Len(Niveis) - 1)}

---------------------------------------------------------------------------
(* The command line and gerar_arte_ascii.                                  *)

Nenhuma == [size |-> <<0, 0>>, tom |-> "nenhum"]

\* What caminho_imagem may name: no file, a file Pillow cannot identify, or
\* an image of some size and content.
Arquivos ==
    {[estado |-> e, size |-> <<0, 0>>, tom |-> "nenhum"] :
        e \in {"inexistente", "ilegivel"}}
    \cup {[estado |-> "valida", size |-> <<w, h>>, tom |-> t] :
            w \in 1..MaxDim, h \in 1..MaxDim, t \in {"preta", "branca", "mista"}}

Init ==
    /\ ASCII_CHARS_PADRAO = Paleta
    /\ argv \in Arquivos
    /\ largura \in (-MaxLarguraNegativa)..MaxLargura
    /\ invertido \in BOOLEAN
    /\ pc = "main"
    /\ imagem = Nenhuma
    /\ imagem_redimensionada = Nenhuma
    /\ imagem_cinza = <<>>
    /\ caracteres_ascii = <<>>
    /\ string_ascii = <<>>
    /\ arte_ascii_final = <<>>
    /\ stdout = <<>>
    /\ erro = "nenhum"
    /\ historico = <<>>
    /\ par = <<>>
    /\ indices = <<>>
    /\ saida_padrao = <<>>
    /\ saida_invertida = <<>>

\* Lines 101-104: parse_args accepts any integer for --largura and main
\* calls gerar_arte_ascii with it.
Main ==
    /\ pc = "main"
    /\ pc' = "abrir"
    /\ UNCHANGED <<ASCII_CHARS_PADRAO, argv, largura, invertido, imagem,
                   imagem_redimensionada, imagem_cinza, caracteres_ascii,
                   string_ascii, arte_ascii_final, stdout, erro, historico>>
    /\ UNCHANGED map_vars

\* Lines 52-53: Image.open succeeds.
AbrirImagem ==
    /\ pc = "abrir"
    /\ argv.estado = "valida"
    /\ historico' = Append(historico, "Image.open")
    /\ imagem' = [size |-> argv.size, tom |-> argv.tom]
    /\ pc' = "redimensionar"
    /\ UNCHANGED <<ASCII_CHARS_PADRAO, argv, largura, invertido,
                   imagem_redimensionada, imagem_cinza, caracteres_ascii,
                   string_ascii, arte_ascii_final, stdout, erro>>
    /\ UNCHANGED map_vars

\* Variant: the handler of Exception comes first and takes FileNotFoundError.
AbrirNaoEncontrado_MensagemGenerica ==
    /\ pc = "abrir"
    /\ argv.estado = "inexistente"
    /\ historico' = Append(historico, "Image.open")
    /\ stdout' = Append(stdout, [tipo |-> "erro_ao_abrir", texto |-> <<>>])
    /\ pc' = "retornou"
    /\ UNCHANGED <<ASCII_CHARS_PADRAO, argv, largura, invertido, imagem,
                   imagem_redimensionada, imagem_cinza, caracteres_ascii,
                   string_ascii, arte_ascii_final, erro>>
    /\ UNCHANGED map_vars

\* Lines 54-56: FileNotFoundError.
AbrirNaoEncontrado ==
    /\ pc = "abrir"
    /\ argv.estado = "inexistente"
    /\ historico' = Append(historico, "Image.open")
    /\ stdout' = Append(stdout, [tipo |-> "erro_nao_encontrado", texto |-> <<>>])
    /\ pc' = "retornou"
    /\ UNCHANGED <<ASCII_CHARS_PADRAO, argv, largura, invertido, imagem,
                   imagem_redimensionada, imagem_cinza, caracteres_ascii,
                   string_ascii, arte_ascii_final, erro>>
    /\ UNCHANGED map_vars

\* Lines 57-59: any other Exception of Image.open.
AbrirFalha ==
    /\ pc = "abrir"
    /\ argv.estado = "ilegivel"
    /\ historico' = Append(historico, "Image.open")
    /\ stdout' = Append(stdout, [tipo |-> "erro_ao_abrir", texto |-> <<>>])
    /\ pc' = "retornou"
    /\ UNCHANGED <<ASCII_CHARS_PADRAO, argv, largura, invertido, imagem,
                   imagem_redimensionada, imagem_cinza, caracteres_ascii,
                   string_ascii, arte_ascii_final, erro>>
    /\ UNCHANGED map_vars

\* Variant: a failed resize is swallowed and the text built so far printed.
Redimensionar_EngoleErro ==
    /\ pc = "redimensionar"
    /\ historico' = historico \o <<"redimensionar_imagem", "imagem.resize">>
    /\ LET nova_altura == NovaAltura(largura, imagem.size[1], imagem.size[2])
       IN  IF largura > 0 /\ nova_altura > 0
           THEN /\ imagem_redimensionada' =
                       [size |-> <<largura, nova_altura>>, tom |-> imagem.tom]
                /\ pc' = "converter"
                /\ stdout' = stdout
           ELSE /\ imagem_redimensionada' = imagem_redimensionada
                /\ pc' = "retornou"
                /\ stdout' = Append(stdout, [tipo |-> "arte",
                                             texto |-> arte_ascii_final])
    /\ UNCHANGED <<ASCII_CHARS_PADRAO, argv, largura, invertido, imagem,
                   imagem_cinza, caracteres_ascii, string_ascii,
                   arte_ascii_final, erro>>
    /\ UNCHANGED map_vars

\* Line 62 and lines 21-30.  Image.resize raises ValueError unless both
\* sides of the requested size are positive.
Redimensionar ==
    /\ pc = "redimensionar"
    /\ historico' = historico \o <<"redimensionar_imagem", "imagem.resize">>
    /\ LET nova_altura == NovaAltura(largura, imagem.size[1], imagem.size[2])
       IN  IF largura > 0 /\ nova_altura > 0
           THEN /\ imagem_redimensionada' =
                       [size |-> <<largura, nova_altura>>, tom |-> imagem.tom]
                /\ pc' = "converter"
                /\ erro' = erro
           ELSE /\ imagem_redimensionada' = imagem_redimensionada
                /\ pc' = "excecao"
                /\ erro' = "ValueError"
    /\ UNCHANGED <<ASCII_CHARS_PADRAO, argv, largura, invertido, imagem,
                   imagem_cinza, caracteres_ascii, string_ascii,
                   arte_ascii_final, stdout>>
    /\ UNCHANGED map_vars

\* Line 65 and lines 32-34.
ConverterCinza ==
    /\ pc = "converter"
    /\ historico' = Append(historico, "converter_para_escala_de_cinza")
    /\ \E pixels \in AmostrasCinza(imagem_redimensionada.tom,
                                   imagem_redimensionada.size[1]
                                       * imagem_redimensionada.size[2]) :
           imagem_cinza' = pixels
    /\ pc' = "mapear"
    /\ UNCHANGED <<ASCII_CHARS_PADRAO, argv, largura, invertido, imagem,
                   imagem_redimensionada, caracteres_ascii, string_ascii,
                   arte_ascii_final, stdout, erro>>
    /\ UNCHANGED map_vars

\* Line 68 and lines 36-48.
Mapear ==
    /\ pc = "mapear"
    /\ historico' = Append(historico, "mapear_pixels_para_ascii")
    /\ caracteres_ascii' = SelecionarPaleta(ASCII_CHARS_PADRAO, invertido)
    /\ LET r == mapear_pixels_para_ascii(imagem_cinza, ASCII_CHARS_PADRAO, invertido)
       IN  /\ string_ascii' = r.texto
           /\ erro' = r.erro
           /\ pc' = IF r.erro = "nenhum" THEN "formatar" ELSE "excecao"
    /\ UNCHANGED <<ASCII_CHARS_PADRAO, argv, largura, invertido, imagem,
                   imagem_redimensionada, imagem_cinza, arte_ascii_final, stdout>>
    /\ UNCHANGED map_vars

\* Lines 71-74.  The resized image is at least one pixel wide, so the step
\* of range is positive.
FormatarArte ==
    /\ pc = "formatar"
    /\ historico' = Append(historico, "formatar")
    /\ arte_ascii_final' = Formatar(string_ascii, imagem_redimensionada.size[1], 0)
    /\ pc' = "imprimir"
    /\ UNCHANGED <<ASCII_CHARS_PADRAO, argv, largura, invertido, imagem,
                   imagem_redimensionada, imagem_cinza, caracteres_ascii,
                   string_ascii, stdout, erro>>
    /\ UNCHANGED map_vars

\* Line 76.
Imprimir ==
    /\ pc = "imprimir"
    /\ historico' = Append(historico, "print")
    /\ stdout' = Append(stdout, [tipo |-> "arte", texto |-> arte_ascii_final])
    /\ pc' = "fim"
    /\ UNCHANGED <<ASCII_CHARS_PADRAO, argv, largura, invertido, imagem,
                   imagem_redimensionada, imagem_cinza, caracteres_ascii,
                   string_ascii, arte_ascii_final, erro>>
    /\ UNCHANGED map_vars

Next ==
    \/ Main
    \/ AbrirImagem
    \/ AbrirNaoEncontrado
    \/ AbrirFalha
    \/ Redimensionar
    \/ ConverterCinza
    \/ Mapear
    \/ FormatarArte
    \/ Imprimir

Spec == Init /\ [][Next]_vars

---------------------------------------------------------------------------
(* mapear_pixels_para_ascii on its own: every sequence of two luminance    *)
(* values, mapped with invertido = False and with invertido = True.       *)

InitMap ==
    /\ ASCII_CHARS_PADRAO = Paleta
    /\ argv = [estado |-> "inexistente", size |-> <<0, 0>>, tom |-> "nenhum"]
    /\ largura = 0
    /\ invertido = FALSE
    /\ pc = "mapear_par"
    /\ imagem = Nenhuma
    /\ imagem_redimensionada = Nenhuma
    /\ imagem_cinza = <<>>
    /\ caracteres_ascii = <<>>
    /\ string_ascii = <<>>
    /\ arte_ascii_final = <<>>
    /\ stdout = <<>>
    /\ erro = "nenhum"
    /\ historico = <<>>
    /\ par \in (0..255) \X (0..255)
    /\ indices = <<>>
    /\ saida_padrao = <<>>
    /\ saida_invertida = <<>>

\* Lines 36-48, called twice on the same pixels.
MapearPar ==
    /\ pc = "mapear_par"
    /\ LET n == mapear_pixels_para_ascii(par, ASCII_CHARS_PADRAO, FALSE)
           i == mapear_pixels_para_ascii(par, ASCII_CHARS_PADRAO, TRUE)
       IN  /\ indices' = <<n.indices, i.indices>>
           /\ saida_padrao' = n
           /\ saida_invertida' = i
    /\ pc' = "par_mapeado"
    /\ UNCHANGED <<ASCII_CHARS_PADRAO, argv, largura, invertido, imagem,
                   imagem_redimensionada, imagem_cinza, caracteres_ascii,
                   string_ascii, arte_ascii_final, stdout, erro, historico, par>>

NextMap == MapearPar

SpecMap == InitMap /\ [][NextMap]_vars

---------------------------------------------------------------------------
(* Vocabulary of the properties.                                           *)

Range(s) == {s[i] : i \in 1..Len(s)}

\* The position of the first QUEBRA of t, Len(t) + 1 when there is none.
PrimeiraQuebra(t) ==
    IF \E i \in 1..Len(t) : t[i] = QUEBRA
    THEN CHOOSE i \in 1..Len(t) :
             t[i] = QUEBRA /\ \A j \in 1..(i - 1) : t[j] # QUEBRA
    ELSE Len(t) + 1

\* The lines of a text, each without its line separator.
RECURSIVE Linhas(_)
Linhas(t) ==
    IF t = <<>> THEN <<>>
    ELSE <<SubSeq(t, 1, PrimeiraQuebra(t) - 1)>>
             \o Linhas(SubSeq(t, PrimeiraQuebra(t) + 1, Len(t)))

NaoEQuebra(c) == c # QUEBRA

SemQuebras(t) == SelectSeq(t, NaoEQuebra)

\* The art texts print has written.
Artes == {i \in 1..Len(stdout) : stdout[i].tipo = "arte"}

\* w * h_orig / w_orig * 0.55 = 11 * w * h_orig / (20 * w_orig), rounded and
\* truncated, in exact arithmetic.
AlturaArredondada == Arredondar(11 * largura * argv.size[2], 20 * argv.size[1])

AlturaTruncada == (11 * largura * argv.size[2]) \div (20 * argv.size[1])

PosicaoNaPaleta(c) ==
    CHOOSE k \in 1..Len(ASCII_CHARS_PADRAO) : ASCII_CHARS_PADRAO[k] = c

Terminou == pc \in {"fim", "retornou", "excecao"}

---------------------------------------------------------------------------
(* The properties.                                                         *)

\* C1, as stated: whenever art is printed for a valid image and a width
\* w > 0, it has round(w * h_orig / w_orig * 0.55) lines and every line has
\* exactly w characters.
C1_LinhasArredondadas ==
    (pc = "fim" /\ largura > 0) =>
        /\ Len(Linhas(arte_ascii_final)) = AlturaArredondada
        /\ \A r \in 1..Len(Linhas(arte_ascii_final)) :
               Len(Linhas(arte_ascii_final)[r]) = largura

\* C1, amended: for a valid image and a width w > 0 the number of lines is
\* the product truncated toward zero, not rounded; art is printed exactly
\* when the truncated height is at least 1, it then has that many lines of
\* exactly w characters each, and when it is 0 the resize raises instead.
C1_LinhasTruncadas ==
    (argv.estado = "valida" /\ largura > 0 /\ Terminou) =>
        /\ pc = "fim" <=> AlturaTruncada >= 1
        /\ pc = "excecao" <=> AlturaTruncada = 0
        /\ pc = "fim" =>
               /\ Artes = {1}
               /\ stdout[1].texto = arte_ascii_final
               /\ Len(Linhas(arte_ascii_final)) = AlturaTruncada
               /\ \A r \in 1..Len(Linhas(arte_ascii_final)) :
                      Len(Linhas(arte_ascii_final)[r]) = largura

\* Art of several lines where truncation and rounding differ.
C1_Witness ==
    /\ pc = "fim"
    /\ largura > 1
    /\ Len(Linhas(arte_ascii_final)) > 1
    /\ AlturaTruncada # AlturaArredondada

\* C2: for the same pixels the inverted output is the element-wise
\* palette-reverse of the non-inverted one: equal lengths, and a position
\* holding palette[k] in the one holds palette[N-1-k] in the other.
C2_InvertidoEspelha ==
    pc = "par_mapeado" =>
        /\ saida_padrao.erro = "nenhum"
        /\ saida_invertida.erro = "nenhum"
        /\ Len(saida_padrao.texto) = Len(par)
        /\ Len(saida_invertida.texto) = Len(saida_padrao.texto)
        /\ \A p \in 1..Len(par) : \A k \in 1..Len(ASCII_CHARS_PADRAO) :
               saida_padrao.texto[p] = ASCII_CHARS_PADRAO[k] =>
                   saida_invertida.texto[p]
                       = ASCII_CHARS_PADRAO[Len(ASCII_CHARS_PADRAO) + 1 - k]

\* Two pixels of different characters, each differing from its mirror.
C2_Witness ==
    /\ pc = "par_mapeado"
    /\ saida_padrao.texto[1] # saida_padrao.texto[2]
    /\ saida_padrao.texto[1] # saida_invertida.texto[1]
    /\ saida_padrao.texto[2] # saida_invertida.texto[2]

\* C3: the mapping is monotonic: for v1 <= v2 the forward-palette position
\* of the character of v1 is <= that of v2 without invertido and >= with.
C3_Monotonico ==
    (pc = "par_mapeado" /\ par[1] <= par[2]) =>
        /\ saida_padrao.erro = "nenhum"
        /\ saida_invertida.erro = "nenhum"
        /\ PosicaoNaPaleta(saida_padrao.texto[1])
               <= PosicaoNaPaleta(saida_padrao.texto[2])
        /\ PosicaoNaPaleta(saida_invertida.texto[1])
               >= PosicaoNaPaleta(saida_invertida.texto[2])

\* Two luminances far enough apart to land on different characters.
C3_Witness ==
    /\ pc = "par_mapeado"
    /\ par[1] < par[2]
    /\ PosicaoNaPaleta(saida_padrao.texto[1])
           < PosicaoNaPaleta(saida_padrao.texto[2])
    /\ PosicaoNaPaleta(saida_invertida.texto[1])
           > PosicaoNaPaleta(saida_invertida.texto[2])

\* C4: without invertido an all-black image maps to palette[0] everywhere
\* and an all-white one to palette[N-1], the space; a 2x2 white image at
\* width 2 prints exactly one line of two spaces and a newline.
C4_PretoEBranco ==
    /\ (pc \in {"formatar", "imprimir", "fim"} /\ ~invertido) =>
           /\ (\A p \in 1..Len(imagem_cinza) : imagem_cinza[p] = 0) =>
                  /\ Len(string_ascii) = Len(imagem_cinza)
                  /\ \A p \in 1..Len(string_ascii) :
                         string_ascii[p] = ASCII_CHARS_PADRAO[1]
           /\ (\A p \in 1..Len(imagem_cinza) : imagem_cinza[p] = 255) =>
                  /\ Len(string_ascii) = Len(imagem_cinza)
                  /\ \A p \in 1..Len(string_ascii) :
                         /\ string_ascii[p] = ASCII_CHARS_PADRAO[Len(ASCII_CHARS_PADRAO)]
                         /\ string_ascii[p] = ESPACO
    /\ ( /\ argv = [estado |-> "valida", size |-> <<2, 2>>, tom |-> "branca"]
         /\ largura = 2
         /\ ~invertido
         /\ Terminou ) =>
           /\ pc = "fim"
           /\ stdout = <<[tipo |-> "arte", texto |-> <<ESPACO, ESPACO, QUEBRA>>]>>

\* The 2x2 white image at width 2 has been printed.
C4_Witness ==
    /\ pc = "fim"
    /\ argv = [estado |-> "valida", size |-> <<2, 2>>, tom |-> "branca"]
    /\ largura = 2
    /\ ~invertido
    /\ Artes # {}

\* C5: when Image.open fails, gerar_arte_ascii prints a failure message
\* (the not-found one for a missing path), prints no art, runs none of the
\* four stages and returns normally.
C5_FalhaAoAbrir ==
    (argv.estado # "valida" /\ pc \notin {"main", "abrir"}) =>
        /\ pc = "retornou"
        /\ erro = "nenhum"
        /\ historico = <<"Image.open">>
        /\ Artes = {}
        /\ stdout = <<[tipo |-> IF argv.estado = "inexistente"
                                THEN "erro_nao_encontrado"
                                ELSE "erro_ao_abrir",
                       texto |-> <<>>]>>
        /\ imagem_redimensionada = Nenhuma
        /\ imagem_cinza = <<>>
        /\ string_ascii = <<>>
        /\ arte_ascii_final = <<>>

\* A missing path has been reported.
C5_Witness ==
    /\ argv.estado = "inexistente"
    /\ pc = "retornou"
    /\ Len(stdout) = 1

\* C6, as stated: a width <= 0 is rejected before the resize is attempted:
\* neither redimensionar_imagem nor imagem.resize is reached and the
\* invocation ends in an InvalidArgument error.
C6_LarguraRejeitada ==
    largura <= 0 =>
        /\ "redimensionar_imagem" \notin Range(historico)
        /\ "imagem.resize" \notin Range(historico)
        /\ Terminou => erro = "InvalidArgument"

\* C7, as stated: the palette has exactly 69 characters, indices 0..68.
C7_Paleta69 ==
    /\ Len(ASCII_CHARS_PADRAO) = 69
    /\ ASCII_CHARS_PADRAO[69] = ESPACO

\* C7, amended: the palette is a fixed ordered sequence of exactly 70
\* characters (indices 0..69, the dollar sign first and the space last), the inverted
\* palette is its exact reverse with the same length, and the palette is
\* never modified during an invocation.
C7_Paleta70 ==
    /\ ASCII_CHARS_PADRAO = Paleta
    /\ Len(ASCII_CHARS_PADRAO) = 70
    /\ Cardinality(Range(ASCII_CHARS_PADRAO)) = 70
    /\ ASCII_CHARS_PADRAO[1] = CIFRAO
    /\ ASCII_CHARS_PADRAO[70] = ESPACO
    /\ pc \in {"formatar", "imprimir", "fim"} =>
           /\ Len(caracteres_ascii) = 70
           /\ ~invertido => caracteres_ascii = ASCII_CHARS_PADRAO
           /\ invertido =>
                  \A i \in 1..70 : caracteres_ascii[i] = ASCII_CHARS_PADRAO[71 - i]

\* An inverted run has selected the reversed palette and printed.
C7_Witness ==
    /\ pc = "fim"
    /\ invertido
    /\ Len(caracteres_ascii) > 0
    /\ caracteres_ascii[1] = ESPACO

\* C8: for every luminance 0..255 and either flag the index of line 45 is
\* in [0, len-1]: the lookup never fails and every emitted character is a
\* member of the palette.
C8_IndiceNosLimites ==
    pc = "par_mapeado" =>
        /\ \A f \in 1..2 : \A p \in 1..Len(par) :
               /\ indices[f][p] >= 0
               /\ indices[f][p] <= Len(ASCII_CHARS_PADRAO) - 1
        /\ saida_padrao.erro = "nenhum"
        /\ saida_invertida.erro = "nenhum"
        /\ Len(saida_padrao.texto) = Len(par)
        /\ Len(saida_invertida.texto) = Len(par)
        /\ Range(saida_padrao.texto) \subseteq Range(ASCII_CHARS_PADRAO)
        /\ Range(saida_invertida.texto) \subseteq Range(ASCII_CHARS_PADRAO)

\* The two ends of the range: luminance 255 at the last index, 0 at the first.
C8_Witness ==
    /\ pc = "par_mapeado"
    /\ par = <<255, 0>>
    /\ indices[1] = <<Len(ASCII_CHARS_PADRAO) - 1, 0>>
    /\ indices[2] = indices[1]

\* C9: art is written at most once and only after resize, grayscale, map
\* and format have completed in that order; an invocation that fails at any
\* stage prints no art; the image load is attempted exactly once.
C9_ArteSoNoFim ==
    /\ Cardinality(Artes) <= 1
    /\ Artes # {} =>
           /\ pc = "fim"
           /\ historico = <<"Image.open", "redimensionar_imagem", "imagem.resize",
                            "converter_para_escala_de_cinza",
                            "mapear_pixels_para_ascii", "formatar", "print">>
    /\ pc \in {"retornou", "excecao"} => Artes = {}
    /\ pc = "fim" => Artes # {}
    /\ Cardinality({i \in 1..Len(historico) : historico[i] = "Image.open"})
           = IF pc \in {"main", "abrir"} THEN 0 ELSE 1

\* An invocation that failed in the resize, after a successful load.
C9_Witness ==
    /\ pc = "excecao"
    /\ erro = "ValueError"
    /\ largura > 0
    /\ stdout = <<>>
    /\ historico = <<"Image.open", "redimensionar_imagem", "imagem.resize">>

\* C10: the formatter splits the W*H characters into H consecutive chunks
\* of W, in order, each followed by one newline: line r is characters
\* r*W .. r*W+W-1, and removing the newlines gives the flat sequence back.
C10_Formatador ==
    pc \in {"imprimir", "fim"} =>
        LET W == imagem_redimensionada.size[1]
            H == imagem_redimensionada.size[2]
            linhas == Linhas(arte_ascii_final)
        IN  /\ W > 0
            /\ Len(string_ascii) = W * H
            /\ Len(linhas) = H
            /\ \A r \in 1..H :
                   linhas[r] = SubSeq(string_ascii, (r - 1) * W + 1, r * W)
            /\ Len(arte_ascii_final) = W * H + H
            /\ arte_ascii_final[Len(arte_ascii_final)] = QUEBRA
            /\ SemQuebras(arte_ascii_final) = string_ascii

\* Art of several rows and columns made of different characters.
C10_Witness ==
    /\ pc = "fim"
    /\ imagem_redimensionada.size[1] > 1
    /\ imagem_redimensionada.size[2] > 1
    /\ Cardinality(Range(string_ascii)) > 2

====
